---- MODULE Spec2Model ----
(***************************************************************************)
(* Gradient layout engine of weasyprint/images.py: stop resolution         *)
(* (process_color_stops), normalization (normalize_stop_positions), the    *)
(* average colour (gradient_average_color) and the layout methods of       *)
(* LinearGradient and RadialGradient, including RadialGradient._repeat.    *)
(*                                                                         *)
(* Numbers.  Python computes with ints and floats; the model computes with *)
(* exact rationals in a normal form (below), so that equality of numbers   *)
(* is equality of values and no rounding takes place.  A division          *)
(* by zero raises ZeroDivisionError in Python: every layout operator tests *)
(* the divisor first and returns Raise("ZeroDivisionError") instead.       *)
(* None is the empty tuple.  Lists are sequences; a loop index i of the    *)
(* source is kept 0-based and the element it names is seq[i + 1].          *)
(***************************************************************************)
EXTENDS Integers, Sequences, FiniteSets, TLC

VARIABLES
    self,       \* the gradient object: its fields after __init__
    pc,         \* per caller: "idle", "running" (inside layout) or "done"
    frame,      \* per caller: the arguments and locals of its layout call
    ret,        \* per caller: what its last layout call returned or raised
    arg,        \* the arguments of a call of one of the module's functions
    out         \* what that call returned

vars == <<self, pc, frame, ret, arg, out>>

None == <<>>

----------------------------------------------------------------------------
(* Exact arithmetic standing for Python's numeric operators.  A number is  *)
(* <<n, d, e>>, the rational (n / d) * 10^e, in the one form where d > 0,  *)
(* gcd(n, d) = 1, d has no factor 2 or 5 and n is no multiple of 10 (zero  *)
(* is <<0, 1, 0>>): the power of ten keeps 1e-7, 1e7 and their quotient    *)
(* within 32-bit integers.                                                 *)

RECURSIVE GCD(_, _)
GCD(a, b) == IF b = 0 THEN a ELSE GCD(b, a % b)

AbsI(n) == IF n < 0 THEN -n ELSE n

RECURSIVE Pow10(_)
Pow10(k) == IF k = 0 THEN 1 ELSE 10 * Pow10(k - 1)

\* d cleared of its factors 2 and 5, each moved into the power of ten
RECURSIVE ClearDen(_, _, _)
ClearDen(n, d, e) ==
    IF d % 2 = 0 THEN ClearDen(n * 5, d \div 2, e - 1)
    ELSE IF d % 5 = 0 THEN ClearDen(n * 2, d \div 5, e - 1)
    ELSE <<n, d, e>>

\* n cleared of its factors 10 (n # 0)
RECURSIVE ClearNum(_, _, _)
ClearNum(n, d, e) ==
    IF n % 10 = 0 THEN ClearNum(n \div 10, d, e + 1) ELSE <<n, d, e>>

\* The number (n / d) * 10^e in its normal form (d # 0).
Norm(n, d, e) ==
    IF n = 0 THEN <<0, 1, 0>>
    ELSE LET g == GCD(AbsI(n), AbsI(d))
             s == IF d < 0 THEN -1 ELSE 1
             c == ClearDen((s * n) \div g, (s * d) \div g, e)
         IN  ClearNum(c[1], c[2], c[3])

Rat(n, d) == Norm(n, d, 0)
Num(n) == Norm(n, 1, 0)
Zero == Num(0)
One == Num(1)

Add(a, b) ==
    LET e == IF a[3] < b[3] THEN a[3] ELSE b[3]
        l == (a[2] \div GCD(a[2], b[2])) * b[2]
    IN  Norm(a[1] * Pow10(a[3] - e) * (l \div a[2])
                 + b[1] * Pow10(b[3] - e) * (l \div b[2]), l, e)
Neg(a) == <<-a[1], a[2], a[3]>>
Sub(a, b) == Add(a, Neg(b))
Mul(a, b) ==
    LET g == GCD(AbsI(a[1]), b[2])
        h == GCD(AbsI(b[1]), a[2])
    IN  Norm((a[1] \div g) * (b[1] \div h), (a[2] \div h) * (b[2] \div g),
             a[3] + b[3])
\* a / b; the callers test b # Zero first (ZeroDivisionError otherwise).
Div(a, b) == Mul(a, Norm(b[2], b[1], -b[3]))
RECURSIVE NumDigits(_)
NumDigits(n) == IF n < 10 THEN 1 ELSE 1 + NumDigits(n \div 10)
\* 10^(Mag(a) - 1) < |a| < 10^(Mag(a) + 1) for a # Zero
Mag(a) == a[3] + NumDigits(AbsI(a[1])) - NumDigits(a[2])
Sign(a) == IF a[1] > 0 THEN 1 ELSE IF a[1] < 0 THEN -1 ELSE 0
\* a < b: by sign, then by order of magnitude where that decides, then by
\* the sign of the exact difference
Lt(a, b) ==
    IF Sign(a) # Sign(b) THEN Sign(a) < Sign(b)
    ELSE IF Sign(a) = 0 THEN FALSE
    ELSE IF Mag(a) >= Mag(b) + 2 THEN Sign(a) < 0
    ELSE IF Mag(b) >= Mag(a) + 2 THEN Sign(a) > 0
    ELSE Sub(a, b)[1] < 0
Le(a, b) == ~Lt(b, a)
Abs(a) == <<AbsI(a[1]), a[2], a[3]>>
Max2(a, b) == IF Lt(a, b) THEN b ELSE a
Min2(a, b) == IF Lt(b, a) THEN b ELSE a
\* math.floor of a number, as an integer.
Floor(a) ==
    IF a[3] >= 0 THEN (a[1] * Pow10(a[3])) \div a[2]
    ELSE a[1] \div (a[2] * Pow10(-a[3]))
\* a // b (floor division); the callers test b # Zero first.
FloorDiv(a, b) == Num(Floor(Div(a, b)))
\* math.ceil(a), as an integer
Ceiling(a) == -Floor(Neg(a))
\* int(a): truncation towards zero.
Trunc(a) == IF a[1] >= 0 THEN Floor(a) ELSE -Floor(Neg(a))

\* seq[k] for a Python index k, which counts from the end when negative
\* (seq[-0] is seq[0]).
At(seq, k) == IF k < 0 THEN seq[Len(seq) + k + 1] ELSE seq[k + 1]
\* seq[k:] for 0 <= k <= len(seq)
From(seq, k) == SubSeq(seq, k + 1, Len(seq))
\* seq[-k:] for 0 <= k <= len(seq) (seq[-0:] is seq[0:], the whole list)
Last(seq, k) == IF k = 0 THEN seq ELSE SubSeq(seq, Len(seq) - k + 1, Len(seq))
\* seq * n
RECURSIVE Times(_, _)
Times(seq, n) == IF n <= 0 THEN <<>> ELSE seq \o Times(seq, n - 1)
\* [i + offset + position for i in range(n) for position in positions]
RECURSIVE Copies(_, _, _)
Copies(positions, n, offset) ==
    IF n <= 0 THEN <<>>
    ELSE Copies(positions, n - 1, offset)
         \o [k \in 1..Len(positions) |-> Add(Num(n - 1 + offset), positions[k])]

\* The exact square root of a square number (math.sqrt, math.hypot)
RECURSIVE Root(_, _, _)
Root(n, lo, hi) ==
    IF lo >= hi THEN lo
    ELSE LET mid == (lo + hi + 1) \div 2
         IN  IF mid * mid <= n THEN Root(n, mid, hi) ELSE Root(n, lo, mid - 1)
ISqrt(n) == CHOOSE r \in {Root(n, 0, IF n < 46340 THEN n ELSE 46340)} : r * r = n
Sqrt(a) ==
    IF a[3] % 2 = 0 THEN Norm(ISqrt(a[1]), ISqrt(a[2]), a[3] \div 2)
    ELSE Norm(ISqrt(a[1] * 10), ISqrt(a[2]), (a[3] - 1) \div 2)
Square(a) == Mul(a, a)
math_hypot(x, y) == Sqrt(Add(Square(x), Square(y)))

----------------------------------------------------------------------------
(* layout/percentages.py percentage(value, refer_to): a Dimension is       *)
(* <<value, unit>> with unit "px" or "%", or None.                         *)

percentage(value, refer_to) ==
    IF value = None THEN None
    ELSE IF value[2] = "px" THEN value[1]
    ELSE Div(Mul(refer_to, value[1]), Num(100))

----------------------------------------------------------------------------
(* process_color_stops                                                     *)

\* lines 214-218: first and last default to 0 and vector_length
Defaults(vector_length, positions) ==
    [k \in 1..Len(positions) |->
        IF k = 1 /\ positions[1] = None THEN Zero
        ELSE IF k = Len(positions) /\ positions[k] = None THEN vector_length
        ELSE positions[k]]

\* lines 221-227: the loop that makes the set positions increasing
IncreasingSkipped(positions, i, previous_pos) == positions
RECURSIVE Increasing(_, _, _)
Increasing(positions, i, previous_pos) ==
    IF i = Len(positions) THEN positions
    ELSE LET position == positions[i + 1]
         IN  IF position # None
             THEN IF Lt(position, previous_pos)
                  THEN Increasing([positions EXCEPT ![i + 1] = previous_pos],
                                  i + 1, previous_pos)
                  ELSE Increasing(positions, i + 1, position)
             ELSE Increasing(positions, i + 1, previous_pos)

\* line 236: the value given to the unset position of index j
Interpolate(base, j, previous_i, increment) == Add(base, Mul(Num(j), increment))

\* lines 230-237: the loop that assigns the missing values
RECURSIVE AssignMissing(_, _, _)
AssignMissing(positions, i, previous_i) ==
    IF i = Len(positions) THEN positions
    ELSE LET position == positions[i + 1]
         IN  IF position # None
             THEN LET base == At(positions, previous_i)
                      increment == Div(Sub(position, base), Num(i - previous_i))
                      filled == [k \in 1..Len(positions) |->
                                    IF k - 1 \in (previous_i + 1)..(i - 1)
                                    THEN Interpolate(base, k - 1, previous_i, increment)
                                    ELSE positions[k]]
                  IN  AssignMissing(filled, i + 1, i)
             ELSE AssignMissing(positions, i + 1, previous_i)

process_color_stops(vector_length, positions) ==
    LET resolved == [k \in 1..Len(positions) |->
                        percentage(positions[k], vector_length)]
        defaulted == Defaults(vector_length, resolved)
        increasing == Increasing(defaulted, 0, defaulted[1])
    IN  AssignMissing(increasing, 0, -1)

----------------------------------------------------------------------------
(* normalize_stop_positions: returns <<first, last, positions>>            *)

normalize_stop_positions(positions) ==
    LET first == positions[1]
        last == positions[Len(positions)]
        total_length == Sub(last, first)
    IN  IF total_length = Zero
        THEN <<first, last, [k \in 1..Len(positions) |-> Zero]>>
        ELSE <<first, last,
               [k \in 1..Len(positions) |->
                   Div(Sub(positions[k], first), total_length)]>>

----------------------------------------------------------------------------
(* gradient_average_color: a colour is <<r, g, b, a>>                      *)

\* lines 266-267: the two assertions
average_asserts(colors, positions) ==
    Len(positions) > 1 /\ Len(positions) = Len(colors)

\* lines 278-284: the accumulated sum of channel values (premultiplied by
\* alpha) over the segments 1..i, each weighted by the segment's length
RECURSIVE AccumulateLeft(_, _, _, _)
AccumulateLeft(values, positions, total_weight, i) ==
    IF i = 0 THEN Zero
    ELSE LET weight == Div(Sub(positions[i + 1], positions[i]), total_weight)
         IN  Add(AccumulateLeft(values, positions, total_weight, i - 1),
                 Add(Mul(values[i], weight), Mul(values[i], weight)))
RECURSIVE Accumulate(_, _, _, _)
Accumulate(values, positions, total_weight, i) ==
    IF i = 0 THEN Zero
    ELSE LET weight == Div(Sub(positions[i + 1], positions[i]), total_weight)
         IN  Add(Accumulate(values, positions, total_weight, i - 1),
                 Add(Mul(values[i], weight), Mul(values[i + 1], weight)))

\* line 277
TotalWeight(total_length) == Mul(Num(2), total_length)

gradient_average_color(colors, positions) ==
    LET nb_stops == Len(positions)
        length == Sub(positions[nb_stops], positions[1])
        pos == IF length = Zero
               THEN [k \in 1..nb_stops |-> Num(k - 1)]
               ELSE positions
        total_length == IF length = Zero THEN Num(nb_stops - 1) ELSE length
        premul_r == [k \in 1..nb_stops |-> Mul(colors[k][1], colors[k][4])]
        premul_g == [k \in 1..nb_stops |-> Mul(colors[k][2], colors[k][4])]
        premul_b == [k \in 1..nb_stops |-> Mul(colors[k][3], colors[k][4])]
        alpha == [k \in 1..nb_stops |-> colors[k][4]]
        total_weight == TotalWeight(total_length)
        result_r == Accumulate(premul_r, pos, total_weight, nb_stops - 1)
        result_g == Accumulate(premul_g, pos, total_weight, nb_stops - 1)
        result_b == Accumulate(premul_b, pos, total_weight, nb_stops - 1)
        result_a == Accumulate(alpha, pos, total_weight, nb_stops - 1)
    IN  IF result_a # Zero
        THEN <<Div(result_r, result_a), Div(result_g, result_a),
               Div(result_b, result_a), result_a>>
        ELSE <<Zero, Zero, Zero, Zero>>

----------------------------------------------------------------------------
(* What layout gives back: the tuple (scale_y, type_, points, positions,   *)
(* colors) of a return statement, or the exception that left the call.     *)

Return(scale_y, type_, points, positions, colors) ==
    [raised |-> "", scale_y |-> scale_y, type |-> type_, points |-> points,
     positions |-> positions, colors |-> colors]

Raise(exception) ==
    [raised |-> exception, scale_y |-> None, type |-> "", points |-> None,
     positions |-> <<>>, colors |-> <<>>]

----------------------------------------------------------------------------
(* LinearGradient.layout.  The object g has the fields colors,             *)
(* stop_positions, repeating, direction_type and direction; the direction  *)
(* of type 'angle' is kept as <<sin(angle), cos(angle)>>.                  *)

math_sin(angle) == angle[1]
math_cos(angle) == angle[2]

\* lines 379-381: <<factor_x, factor_y>> of a 'corner' direction "y_x"
Factors(direction) ==
    <<IF direction \in {"top_left", "bottom_left"} THEN -1 ELSE 1,
      IF direction \in {"top_left", "top_right"} THEN -1 ELSE 1>>

\* lines 378-391: the unit vector <<dx, dy>> (diagonal # 0 for a corner)
Direction(g, width, height) ==
    IF g.direction_type = "corner"
    THEN LET diagonal == math_hypot(width, height)
         IN  <<Div(Mul(Num(Factors(g.direction)[1]), height), diagonal),
               Div(Mul(Num(Factors(g.direction)[2]), width), diagonal)>>
    ELSE <<math_sin(g.direction), Neg(math_cos(g.direction))>>

\* lines 397-405: the boundary stops added to a non-repeating linear
\* gradient, as <<positions, colors>>
LinearPad(repeating, positions, colors) ==
    IF repeating THEN <<positions, colors>>
    ELSE LET p1 == IF positions[1] = positions[2]
                   THEN <<Sub(positions[1], One)>> \o positions
                   ELSE positions
             c1 == IF positions[1] = positions[2]
                   THEN <<colors[1]>> \o colors
                   ELSE colors
             n == Len(p1)
         IN  IF p1[n - 1] = p1[n]
             THEN <<Append(p1, Add(p1[n], One)), Append(c1, c1[n])>>
             ELSE <<p1, c1>>

\* line 395
VectorLength(width, height, d) ==
    Add(Abs(Mul(width, d[1])), Abs(Mul(height, d[2])))

\* lines 374 and 441: the plan of a gradient with only one colour
OneColorBlank(colors) == Return(One, "solid", None, <<>>, <<>>)
OneColor(colors) == Return(One, "solid", None, <<>>, <<colors[1]>>)

\* line 410 and line 502: the test that renders a solid colour
SolidTest(first, last, repeating) == first = last /\ repeating

\* lines 406-421, normalized being what line 406 gets; <<plan, list>>
LinearPoints(g, width, height, d, vector_length, colors, normalized) ==
    IF SolidTest(normalized[1], normalized[2], g.repeating)
    THEN IF average_asserts(colors, normalized[3])
         THEN <<Return(One, "solid", None, <<>>,
                       <<gradient_average_color(colors, normalized[3])>>),
                colors>>
         ELSE <<Raise("AssertionError"), colors>>
    ELSE <<Return(One, "linear",
                  <<Add(Div(Sub(width, Mul(d[1], vector_length)), Num(2)),
                        Mul(d[1], normalized[1])),
                    Add(Div(Sub(height, Mul(d[2], vector_length)), Num(2)),
                        Mul(d[2], normalized[1])),
                    Add(Div(Sub(width, Mul(d[1], vector_length)), Num(2)),
                        Mul(d[1], normalized[2])),
                    Add(Div(Sub(height, Mul(d[2], vector_length)), Num(2)),
                        Mul(d[2], normalized[2]))>>,
                  normalized[3], colors),
           colors>>

\* lines 396-406, padded being the stops after lines 394-405
LinearPadded(g, width, height, d, vector_length, padded) ==
    LinearPoints(g, width, height, d, vector_length, padded[2],
                 normalize_stop_positions(padded[1]))

\* lines 396-405
LinearStops(g, width, height, d, vector_length) ==
    LinearPadded(g, width, height, d, vector_length,
                 LinearPad(g.repeating,
                           process_color_stops(vector_length, g.stop_positions),
                           g.colors))

\* lines 394-395, d being <<dx, dy>>
LinearLength(g, width, height, d) ==
    LinearStops(g, width, height, d, VectorLength(width, height, d))

\* lines 371-421, as <<plan, list>>: what the call returns or raises, and
\* the content of the list made on line 394 when it does (of self.colors
\* itself when the call ends before that line)
LinearRun(g, width, height) ==
    IF Len(g.colors) = 1
    THEN <<OneColor(g.colors), g.colors>>
    ELSE IF g.direction_type = "corner" /\ math_hypot(width, height) = Zero
    THEN <<Raise("ZeroDivisionError"), g.colors>>
    ELSE IF g.direction_type \notin {"corner", "angle"}
    THEN <<Raise("AssertionError"), g.colors>>
    ELSE LinearLength(g, width, height, Direction(g, width, height))

LinearGradient_layout(g, width, height) == LinearRun(g, width, height)[1]

----------------------------------------------------------------------------
(* RadialGradient.  The object g has the fields colors, stop_positions,    *)
(* repeating, center (<<origin_x, pos_x, origin_y, pos_y>>), shape,        *)
(* size_type and size.                                                     *)

\* 1e-7 and 1e7 of lines 636-642, and math.sqrt(2) of line 627 (kept as
\* the rational 99/70)
Tiny == Norm(1, 1, -7)
Huge == Norm(1, 1, 7)
Sqrt2 == Rat(99, 70)

\* min(...) or max(...) of a non-empty list of numbers
RECURSIVE pick(_, _)
pick(closest, values) ==
    IF Len(values) = 1 THEN values[1]
    ELSE LET rest == pick(closest, Tail(values))
         IN  IF closest THEN Min2(values[1], rest) ELSE Max2(values[1], rest)

\* min(..., key=hypot) or max(..., key=hypot) of a list of pairs: the
\* first pair whose key is the least (the greatest); the keys are compared
\* by their squares
RECURSIVE pick_corner(_, _)
pick_corner(closest, corners) ==
    IF Len(corners) = 1 THEN corners[1]
    ELSE LET rest == pick_corner(closest, Tail(corners))
             key == Add(Square(corners[1][1]), Square(corners[1][2]))
             rest_key == Add(Square(rest[1]), Square(rest[2]))
         IN  IF closest
             THEN IF Lt(rest_key, key) THEN rest ELSE corners[1]
             ELSE IF Lt(key, rest_key) THEN rest ELSE corners[1]

_resolve_size(g, width, height, center_x, center_y) ==
    IF g.size_type = "explicit"
    THEN <<percentage(g.size[1], width), percentage(g.size[2], height)>>
    ELSE
    LET left == Abs(center_x)
        right == Abs(Sub(width, center_x))
        top == Abs(center_y)
        bottom == Abs(Sub(height, center_y))
        closest == g.size \in {"closest-side", "closest-corner"}
    IN  IF g.size \in {"closest-side", "farthest-side"}
        THEN IF g.shape = "circle"
             THEN LET size_xy == pick(closest, <<left, right, top, bottom>>)
                  IN  <<size_xy, size_xy>>
             ELSE <<pick(closest, <<left, right>>), pick(closest, <<top, bottom>>)>>
        ELSE IF g.shape = "circle"
             THEN LET size_xy ==
                          pick(closest,
                               <<math_hypot(left, top), math_hypot(left, bottom),
                                 math_hypot(right, top), math_hypot(right, bottom)>>)
                  IN  <<size_xy, size_xy>>
             ELSE LET corner == pick_corner(closest,
                                    <<<<left, top>>, <<left, bottom>>,
                                      <<right, top>>, <<right, bottom>>>>)
                  IN  <<Mul(corner[1], Sqrt2), Mul(corner[2], Sqrt2)>>

_handle_degenerateSkipped(size_x, size_y) == <<size_x, size_y>>
_handle_degenerate(size_x, size_y) ==
    IF size_x = Zero /\ size_y = Zero THEN <<Tiny, Tiny>>
    ELSE IF size_x = Zero THEN <<Tiny, Huge>>
    ELSE IF size_y = Zero THEN <<Huge, Tiny>>
    ELSE <<size_x, size_y>>

\* lines 444-450: <<center_x, center_y>>
Center(g, width, height) ==
    LET center_x == percentage(g.center[2], width)
        center_y == percentage(g.center[4], height)
    IN  <<IF g.center[1] = "right" THEN Sub(width, center_x) ELSE center_x,
          IF g.center[3] = "bottom" THEN Sub(height, center_y) ELSE center_y>>

\* lines 453-454: <<size_x, size_y>>
Sizes(g, width, height) ==
    LET c == Center(g, width, height)
        resolved == _resolve_size(g, width, height, c[1], c[2])
    IN  _handle_degenerate(resolved[1], resolved[2])

\* line 455
ScaleY(size_x, size_y) == Div(size_y, size_x)

\* lines 460-468: the boundary stops added to a non-repeating radial
\* gradient, as <<positions, colors>>
RadialPad(repeating, positions, colors) ==
    IF repeating THEN <<positions, colors>>
    ELSE LET front == Lt(Zero, positions[1]) /\ positions[1] = positions[2]
             p1 == IF front THEN <<Zero>> \o positions ELSE positions
             c1 == IF front THEN <<colors[1]>> \o colors ELSE colors
             n == Len(p1)
         IN  IF p1[n - 1] = p1[n]
             THEN <<Append(p1, Add(p1[n], One)), Append(c1, c1[n])>>
             ELSE <<p1, c1>>

\* line 474 with the quotient rounded up instead of down
OffsetCeil(vector_length, first) ==
    Mul(vector_length, Num(Ceiling(Sub(One, Div(first, vector_length)))))

\* line 474
Offset(vector_length, first) ==
    Mul(vector_length, Add(One, FloorDiv(Neg(first), vector_length)))

\* lines 492-494: the colour given to position 0, between the stops
\* (previous_position, previous_color) and (position, color)
IntermediateColor(previous_color, previous_position, color, position) ==
    gradient_average_color(<<previous_color, previous_color, color, color>>,
                           <<previous_position, Zero, Zero, position>>)

\* lines 481-497: the loop over the stops of a non-repeating gradient whose
\* first position is negative; <<raised, positions, colors>>
RECURSIVE KeepPositive(_, _, _)
KeepPositive(positions, colors, i) ==
    IF i = Len(positions) THEN <<"", positions, colors>>
    ELSE LET position == positions[i + 1]
         IN  IF position = Zero
             THEN <<"", From(positions, i), From(colors, i)>>
             ELSE IF Lt(Zero, position)
             THEN IF ~Lt(At(positions, i - 1), Zero)
                  THEN <<"AssertionError", positions, colors>>
                  ELSE <<"",
                         <<Zero>> \o From(positions, i),
                         <<IntermediateColor(At(colors, i - 1),
                                             At(positions, i - 1),
                                             colors[i + 1], position)>>
                         \o From(colors, i)>>
             ELSE KeepPositive(positions, colors, i + 1)

\* lines 469-497: the stops of a gradient after the shift into the positive
\* realm; solid marks the return of line 480
Positive(repeating, positions, colors) ==
    LET n == Len(positions)
        same == [raised |-> "", solid |-> FALSE,
                 positions |-> positions, colors |-> colors]
    IN  IF ~Lt(positions[1], Zero) THEN same
        ELSE IF repeating
        THEN LET vector_length == Sub(positions[n], positions[1])
             IN  IF vector_length = Zero
                 THEN [same EXCEPT !.raised = "ZeroDivisionError"]
                 ELSE [same EXCEPT !.positions =
                          [k \in 1..n |->
                              Add(positions[k],
                                  Offset(vector_length, positions[1]))]]
        ELSE IF Le(positions[n], Zero) THEN [same EXCEPT !.solid = TRUE]
        ELSE LET kept == KeepPositive(positions, colors, 0)
             IN  [raised |-> kept[1], solid |-> FALSE,
                  positions |-> kept[2], colors |-> kept[3]]

----------------------------------------------------------------------------
(* RadialGradient._repeat.  points is the tuple of line 507, points[k] of  *)
(* the source being points[k + 1] here.  max_distance is kept as its       *)
(* square, and math.ceil((max_distance - points[5]) / gradient_length) as  *)
(* the least n for which points[5] + n * gradient_length reaches it.       *)

\* lines 525-529, squared
MaxDistance2(width, height, scale_y, points) ==
    LET x1 == Sub(width, points[1])
        x0 == Neg(points[1])
        y1 == Sub(Div(height, scale_y), points[2])
        y0 == Mul(Neg(points[2]), scale_y)
    IN  Max2(Max2(Add(Square(x1), Square(y1)), Add(Square(x1), Square(y0))),
             Max2(Add(Square(x0), Square(y1)), Add(Square(x0), Square(y0))))

\* max_distance <= radius
Reaches(radius, max_distance2) ==
    radius[1] >= 0 /\ Le(max_distance2, Square(radius))

\* line 530: repeat_after when it is positive, and 0 when it is not (line
\* 531 is the only use of a repeat_after <= 0)
RECURSIVE RepeatAfter(_, _, _, _)
RepeatAfter(max_distance2, outer, gradient_length, n) ==
    IF Reaches(Add(outer, Mul(Num(n), gradient_length)), max_distance2) THEN n
    ELSE RepeatAfter(max_distance2, outer, gradient_length, n + 1)

\* lines 571-598: the loop over the reversed original positions, i from 1;
\* <<found, positions, colors>> with the stops to put before the others
RECURSIVE ToCenter(_, _, _, _, _)
ToCenter(original_positions, original_colors, ratio, full_repeat, i) ==
    IF i > Len(original_positions) THEN <<FALSE, <<>>, <<>>>>
    ELSE
    LET position == At(original_positions, -i)
    IN  IF position = ratio
        THEN <<TRUE,
               [k \in 1..i |->
                   Sub(Last(original_positions, i)[k], Num(full_repeat + 1))],
               Last(original_colors, i)>>
        ELSE IF Lt(position, ratio)
        THEN LET color == At(original_colors, -i)
                 next_color == At(original_colors, -(i - 1))
                 next_position == At(original_positions, -(i - 1))
                 zero_color ==
                     gradient_average_color(
                         <<color, color, next_color, next_color>>,
                         <<position, ratio, ratio, next_position>>)
                 tail == Last(original_positions, i - 1)
             IN  <<TRUE,
                   <<Sub(ratio, Num(1 + full_repeat))>>
                   \o [k \in 1..Len(tail) |-> Sub(tail[k], Num(1 + full_repeat))],
                   <<zero_color>> \o Last(original_colors, i - 1)>>
        ELSE ToCenter(original_positions, original_colors, ratio,
                      full_repeat, i + 1)

\* what _repeat gives back: the tuple of a return statement (raised = "")
\* or the exception that left it, with list the content of the list that
\* came in as colors (lines 534 and 553 extend it in place)
Repeated(raised, points, positions, colors, list) ==
    [raised |-> raised, points |-> points, positions |-> positions,
     colors |-> colors, list |-> list]

\* lines 558-598, with colors and positions as lines 551-556 leave them
RepeatCenter(points, original_positions, original_colors, positions, colors, full_repeat, partial_repeat, center) ==
    IF partial_repeat = Zero
    THEN Repeated("", points, positions, colors, colors)
    ELSE IF ~(original_positions[1] = Zero
              /\ At(original_positions, -1) = One
              /\ Lt(Zero, partial_repeat) /\ Lt(partial_repeat, One))
    THEN Repeated("AssertionError", points, positions, colors, colors)
    ELSE IF ~center[1]
    THEN \* the loop ends without a return: _repeat returns None, which
         \* line 512 cannot unpack
         Repeated("TypeError", points, positions, colors, colors)
    ELSE Repeated("", points, center[2] \o positions, center[3] \o colors,
                  colors)

\* lines 549-559
RepeatInside(points, original_positions, original_colors, positions, colors, repeat_before, full_repeat) ==
    RepeatCenter(
        points, original_positions, original_colors,
        IF full_repeat # 0
        THEN Copies(original_positions, full_repeat, -full_repeat) \o positions
        ELSE positions,
        IF full_repeat # 0
        THEN colors \o Times(original_colors, full_repeat)
        ELSE colors,
        full_repeat,
        Sub(repeat_before, Num(full_repeat)),
        IF Sub(repeat_before, Num(full_repeat)) = Zero THEN <<FALSE, <<>>, <<>>>>
        ELSE ToCenter(original_positions, original_colors,
                      Sub(One, Sub(repeat_before, Num(full_repeat))),
                      full_repeat, 1))

\* lines 539-550, with points, colors and positions as lines 531-537 leave
\* them
RepeatBefore(points, original_positions, original_colors, positions, colors, repeat_before) ==
    IF points[3] = Zero
    THEN Repeated("", points, positions, colors, colors)
    ELSE RepeatInside(<<points[1], points[2], Zero, points[4], points[5],
                        points[6]>>,
                      original_positions, original_colors, positions, colors,
                      repeat_before, Trunc(repeat_before))

\* lines 531-544
RepeatOutside(points, positions, colors, gradient_length, repeat_after) ==
    RepeatBefore(
        <<points[1], points[2], points[3], points[4], points[5],
          IF repeat_after > 0
          THEN Add(points[6], Mul(gradient_length, Num(repeat_after)))
          ELSE points[6]>>,
        positions, colors,
        IF repeat_after > 0 THEN Copies(positions, 1 + repeat_after, 0)
        ELSE positions,
        IF repeat_after > 0 THEN Times(colors, 1 + repeat_after) ELSE colors,
        Div(points[3], gradient_length))

\* lines 521-530
RepeatLength(width, height, scale_y, points, positions, colors, gradient_length) ==
    IF gradient_length = Zero
    THEN Repeated("ZeroDivisionError", points, positions, colors, colors)
    ELSE RepeatOutside(points, positions, colors, gradient_length,
                       RepeatAfter(MaxDistance2(width, height, scale_y, points),
                                   points[6], gradient_length, 0))

_repeat(width, height, scale_y, points, positions, colors) ==
    RepeatLength(width, height, scale_y, points, positions, colors,
                 Sub(points[6], points[3]))

----------------------------------------------------------------------------
(* RadialGradient.layout                                                   *)

\* The call up to the test of line 511, as [done, plan, scale_y, points,
\* positions, colors, list]: done when the call has returned or raised by
\* then, with plan what it returned or raised, and otherwise the locals of
\* line 511; list is the content of the list made on line 458 (of
\* self.colors itself before that line).
Ended(plan, list) ==
    [done |-> TRUE, plan |-> plan, scale_y |-> None, points |-> None,
     positions |-> <<>>, colors |-> <<>>, list |-> list]

\* lines 498-509, normalized being what line 498 gets
RadialPoints(g, center, scale_y, list, colors, normalized) ==
    IF SolidTest(normalized[1], normalized[2], g.repeating)
    THEN IF average_asserts(colors, normalized[3])
         THEN Ended(Return(One, "solid", None, <<>>,
                           <<gradient_average_color(colors, normalized[3])>>),
                    list)
         ELSE Ended(Raise("AssertionError"), list)
    ELSE IF scale_y = Zero THEN Ended(Raise("ZeroDivisionError"), list)
    ELSE [done |-> FALSE, plan |-> Raise(""), scale_y |-> scale_y,
          points |-> <<center[1], Div(center[2], scale_y), normalized[1],
                       center[1], Div(center[2], scale_y), normalized[2]>>,
          positions |-> normalized[3], colors |-> colors, list |-> list]

\* lines 469-498, shifted being the stops after lines 469-497
RadialShifted(g, center, scale_y, list, shifted) ==
    IF shifted.raised # "" THEN Ended(Raise(shifted.raised), list)
    ELSE IF shifted.solid
    THEN Ended(Return(One, "solid", None, <<>>, <<At(g.colors, -1)>>), list)
    ELSE RadialPoints(g, center, scale_y, list, shifted.colors,
                      normalize_stop_positions(shifted.positions))

\* lines 469-497, padded being the stops after lines 458-468
RadialPadded(g, center, scale_y, padded) ==
    RadialShifted(g, center, scale_y, padded[2],
                  Positive(g.repeating, padded[1], padded[2]))

\* lines 455-468, size being what line 453 gets
RadialSized(g, center, size) ==
    IF size[1] = Zero THEN Ended(Raise("ZeroDivisionError"), g.colors)
    ELSE RadialPadded(g, center, ScaleY(size[1], size[2]),
                      RadialPad(g.repeating,
                                process_color_stops(size[1], g.stop_positions),
                                g.colors))

\* lines 439-454
RadialLocals(g, width, height) ==
    IF Len(g.colors) = 1 THEN Ended(OneColor(g.colors), g.colors)
    ELSE RadialSized(g, Center(g, width, height), Sizes(g, width, height))

\* lines 511-515, from the locals l of line 511 and what _repeat gives, as
\* <<plan, list>>: what the call returns or raises, and the content of the
\* list of line 458 when it does
RadialRepeated(l, repeated) ==
    IF repeated.raised # "" THEN <<Raise(repeated.raised), repeated.list>>
    ELSE <<Return(l.scale_y, "radial", repeated.points, repeated.positions,
                  repeated.colors),
           repeated.list>>

RadialFinish(g, width, height, l) ==
    IF l.done THEN <<l.plan, l.list>>
    ELSE IF ~g.repeating
    THEN <<Return(l.scale_y, "radial", l.points, l.positions, l.colors),
           l.list>>
    ELSE RadialRepeated(l, _repeat(width, height, l.scale_y, l.points,
                                   l.positions, l.colors))

RadialGradient_layout(g, width, height) ==
    RadialFinish(g, width, height, RadialLocals(g, width, height))[1]

----------------------------------------------------------------------------
(* The gradient objects and boxes of the model.                            *)

MaxStops == 3       \* the longest list of colour stops
MaxRepeat == 4      \* the most periods _repeat adds on either side

px(n) == <<Num(n), "px">>
pct(n) == <<Num(n), "%">>

StopValues == {None, px(-10), pct(0), pct(50)}
StopLists == UNION {[1..n -> StopValues] : n \in 1..MaxStops}

\* The colour of the k-th stop: red, blue, half-transparent green,
\* transparent white, and so on.
Colour(k) ==
    CASE k % 4 = 1 -> <<One, Zero, Zero, One>>
      [] k % 4 = 2 -> <<Zero, Zero, One, One>>
      [] k % 4 = 3 -> <<Zero, One, Zero, Rat(1, 2)>>
      [] OTHER -> <<One, One, One, Zero>>
Colours(n) == [k \in 1..n |-> Colour(k)]

\* Directions: two corners; the angles 0 and pi/2 as <<sin, cos>>
Corners == {<<"corner", "top_left">>, <<"corner", "bottom_right">>}
Angles == {<<"angle", <<Zero, One>>>>, <<"angle", <<One, Zero>>>>}

\* Gradient.__init__ and LinearGradient.__init__
LinearGradient(stop_positions, direction, repeating) ==
    [class |-> "LinearGradient",
     colors |-> Colours(Len(stop_positions)),
     stop_positions |-> stop_positions,
     repeating |-> repeating,
     direction_type |-> direction[1],
     direction |-> direction[2]]

ExplicitSizes == {<<"ellipse", "explicit", <<px(50), px(20)>>>>,
                  <<"ellipse", "explicit", <<px(0), px(0)>>>>,
                  <<"ellipse", "explicit", <<px(0), px(20)>>>>,
                  <<"ellipse", "explicit", <<px(50), px(0)>>>>}
KeywordSizes == {<<"circle", "keyword", "closest-side">>,
                 <<"ellipse", "keyword", "farthest-side">>,
                 <<"circle", "keyword", "farthest-corner">>,
                 <<"ellipse", "keyword", "closest-corner">>}
Centers == {<<"left", pct(0), "top", pct(0)>>,
            <<"left", pct(50), "top", pct(50)>>}

\* Gradient.__init__ and RadialGradient.__init__
RadialGradient(stop_positions, shape, center, repeating) ==
    [class |-> "RadialGradient",
     colors |-> Colours(Len(stop_positions)),
     stop_positions |-> stop_positions,
     repeating |-> repeating,
     center |-> center,
     shape |-> shape[1],
     size_type |-> shape[2],
     size |-> shape[3]]

\* The gradient objects, by the type of their direction or size
LinearGradients(directions) ==
    {LinearGradient(p, d, r) : p \in StopLists, d \in directions, r \in BOOLEAN}
RadialGradients(sizes) ==
    {RadialGradient(p, s, c, r) :
        p \in StopLists, s \in sizes, c \in Centers, r \in BOOLEAN}

\* Gradients centred on the bottom left corner of the box: an ellipse of
\* scale_y = 2 / 5 and a circle
LowSizes == {<<"ellipse", "explicit", <<px(50), px(20)>>>>,
             <<"circle", "keyword", "farthest-corner">>}
LowCenter == <<"left", pct(0), "bottom", pct(0)>>
LowGradients ==
    {RadialGradient(p, s, LowCenter, r) :
        p \in StopLists, s \in LowSizes, r \in BOOLEAN}

Boxes == {<<Num(0), Num(0)>>, <<Num(3), Num(4)>>, <<Num(60), Num(80)>>}

\* The numbers of the model are exact, and the periods _repeat adds are
\* bounded.  A radial gradient whose resolved size has a zero (so that
\* _handle_degenerate gives it 1e-7 or 1e7) is laid out with stops that are
\* unset or percentages; such a gradient, and one whose size is a multiple
\* of math.sqrt(2), is tiled only in the empty box (Exact); and a
\* repeating radial gradient is laid out where _repeat adds at most
\* MaxRepeat periods after the outer circle and MaxRepeat whole periods
\* before the inner one (WithinRepeat, of the locals l of line 511).
Relative(stop_positions) ==
    \A k \in 1..Len(stop_positions) :
        IF stop_positions[k] = None THEN TRUE ELSE stop_positions[k][2] = "%"

Degenerate(g, width, height) ==
    LET c == Center(g, width, height)
        resolved == _resolve_size(g, width, height, c[1], c[2])
    IN  resolved[1] = Zero \/ resolved[2] = Zero

WithinRepeat(l, width, height) ==
    LET gradient_length == Sub(l.points[6], l.points[3])
    IN  l.done
        \/ /\ Reaches(Add(l.points[6], Mul(Num(MaxRepeat), gradient_length)),
                      MaxDistance2(width, height, l.scale_y, l.points))
           /\ Trunc(Div(l.points[3], gradient_length)) <= MaxRepeat

\* the size is that of line 627, a multiple of math.sqrt(2)
Diagonal(g) ==
    g.size_type = "keyword" /\ g.shape = "ellipse"
    /\ g.size \in {"closest-corner", "farthest-corner"}

Exact(g, width, height) ==
    /\ Degenerate(g, width, height) => Relative(g.stop_positions)
    /\ g.repeating /\ (Degenerate(g, width, height) \/ Diagonal(g))
       => width = Zero /\ height = Zero

----------------------------------------------------------------------------
(* The state machine: callers enter layout(width, height) on the one       *)
(* gradient object and leave it with what it returns or raises.  A call    *)
(* outside the bounds above is not followed to its end.                    *)

NoPlan == Raise("none")
NoFrame == <<>>

\* self.colors after a call whose local list colors (line 394, line 458)
\* ended as local_colors: the local is a copy, list(self.colors), and the
\* field is a tuple, so what is done to the local never reaches the field
StoredColorsShared(field, local_colors) == local_colors
StoredColors(field, local_colors) == field

Call(t, width, height) ==
    /\ pc[t] \in {"idle", "done"}
    /\ pc' = [pc EXCEPT ![t] = "running"]
    /\ frame' = [frame EXCEPT ![t] = <<width, height>>]
    /\ ret' = [ret EXCEPT ![t] = NoPlan]
    /\ UNCHANGED <<self, arg, out>>

\* the call of caller t ends with run, the pair <<plan, list>>
Leave(t, run) ==
    /\ ret' = [ret EXCEPT ![t] = run[1]]
    /\ self' = [self EXCEPT !.colors = StoredColors(self.colors, run[2])]
    /\ pc' = [pc EXCEPT ![t] = "done"]
    /\ UNCHANGED <<frame, arg, out>>

LinearReturn(t) ==
    /\ pc[t] = "running"
    /\ self.class = "LinearGradient"
    /\ Leave(t, LinearRun(self, frame[t][1], frame[t][2]))

\* the rest of a radial call from the locals l of line 511
RadialLeave(t, l) ==
    /\ self.repeating => WithinRepeat(l, frame[t][1], frame[t][2]) = TRUE
    /\ Leave(t, RadialFinish(self, frame[t][1], frame[t][2], l))

RadialReturn(t) ==
    /\ pc[t] = "running"
    /\ self.class = "RadialGradient"
    /\ Len(self.colors) > 1 => Exact(self, frame[t][1], frame[t][2]) = TRUE
    /\ RadialLeave(t, RadialLocals(self, frame[t][1], frame[t][2]))

Init ==
    /\ \/ self \in LinearGradients(Corners)
       \/ self \in LinearGradients(Angles)
       \/ self \in RadialGradients(ExplicitSizes)
       \/ self \in RadialGradients(KeywordSizes)
       \/ self \in LowGradients
    /\ pc = [t \in {1} |-> "idle"]
    /\ frame = [t \in {1} |-> NoFrame]
    /\ ret = [t \in {1} |-> NoPlan]
    /\ arg = None
    /\ out = None

Next ==
    \E t \in DOMAIN pc :
        \/ \E b \in Boxes : Call(t, b[1], b[2])
        \/ LinearReturn(t)
        \/ RadialReturn(t)

Spec == Init /\ [][Next]_vars

----------------------------------------------------------------------------
(* Interleaved callers: layout is entered by up to MaxCallers callers on   *)
(* the one gradient object, whose stops are those that make layout insert  *)
(* boundary stops (equal neighbours), drop negative ones, or tile.         *)

MaxCallers == 2

SharedLists == {<<pct(0), pct(0)>>, <<pct(50), pct(50)>>, <<None, None>>,
                <<px(-10), pct(50)>>}
SharedLinear(directions) ==
    {LinearGradient(p, d, r) :
        p \in SharedLists, d \in directions, r \in BOOLEAN}
SharedRadial(sizes) ==
    {RadialGradient(p, s, c, r) :
        p \in SharedLists, s \in sizes, c \in Centers, r \in BOOLEAN}

InitCalls ==
    /\ \/ self \in SharedLinear(Corners)
       \/ self \in SharedLinear(Angles)
       \/ self \in SharedRadial(ExplicitSizes)
       \/ self \in SharedRadial(KeywordSizes)
    /\ pc = [t \in 1..MaxCallers |-> "idle"]
    /\ frame = [t \in 1..MaxCallers |-> NoFrame]
    /\ ret = [t \in 1..MaxCallers |-> NoPlan]
    /\ arg = None
    /\ out = None

SpecCalls == InitCalls /\ [][Next]_vars

----------------------------------------------------------------------------
(* process_color_stops as a function of its arguments: arg is              *)
(* <<vector_length, positions>> and out what the call returns.             *)

MaxList == 5

Lengths == {Num(0), Num(30)}
ListValues == {None, px(-10), px(10), px(40), pct(50)}
Lists == UNION {[1..n -> ListValues] : n \in 1..MaxList}

InitStops ==
    /\ arg \in Lengths \X Lists
    /\ out = None
    /\ self = None
    /\ pc = <<>>
    /\ frame = <<>>
    /\ ret = <<>>

Resolve ==
    /\ out = None
    /\ Len(arg) = 2
    /\ out' = process_color_stops(arg[1], arg[2])
    /\ UNCHANGED <<self, pc, frame, ret, arg>>

NextStops == Resolve

SpecStops == InitStops /\ [][NextStops]_vars

----------------------------------------------------------------------------
(* gradient_average_color as a function of its arguments: arg is           *)
(* <<"average", colors, positions>>, with positions that do not decrease,  *)
(* and out what the call returns.                                          *)

MaxAverage == 3

Palette == {Colour(k) : k \in 1..4}
Marks == {Num(-1), Num(0), Num(1), Num(3)}
Ascending(positions) ==
    \A k \in 1..(Len(positions) - 1) : Le(positions[k], positions[k + 1])
AverageInputs ==
    UNION {{<<"average", c, p>> : c \in [1..n -> Palette],
                                  p \in {q \in [1..n -> Marks] : Ascending(q)}} :
           n \in 2..MaxAverage}

InitAverage ==
    /\ arg \in AverageInputs
    /\ out = None
    /\ self = None
    /\ pc = <<>>
    /\ frame = <<>>
    /\ ret = <<>>

Average ==
    /\ out = None
    /\ Len(arg) = 3
    /\ out' = gradient_average_color(arg[2], arg[3])
    /\ UNCHANGED <<self, pc, frame, ret, arg>>

NextAverage == Average

SpecAverage == InitAverage /\ [][NextAverage]_vars

----------------------------------------------------------------------------
(* Lines 469-475 of RadialGradient.layout as a function of the positions   *)
(* that reach them in a repeating gradient: arg is <<"shift", positions>>  *)
(* and out the stops after them.                                           *)

MaxShift == 3

ShiftMarks == {Num(-70), Num(-35), Num(-10), Num(0), Num(25), Num(50)}
ShiftInputs ==
    UNION {{<<"shift", p>> : p \in {q \in [1..n -> ShiftMarks] : Ascending(q)}} :
           n \in 2..MaxShift}

InitShift ==
    /\ arg \in ShiftInputs
    /\ out = None
    /\ self = None
    /\ pc = <<>>
    /\ frame = <<>>
    /\ ret = <<>>

Shift ==
    /\ out = None
    /\ Len(arg) = 2
    /\ out' = Positive(TRUE, arg[2], Colours(Len(arg[2])))
    /\ UNCHANGED <<self, pc, frame, ret, arg>>

NextShift == Shift

SpecShift == InitShift /\ [][NextShift]_vars

----------------------------------------------------------------------------
(* get_image_from_uri, entered by up to MaxCallers callers that share one  *)
(* cache: arg is the cache (the dict passed as cache, a function from the  *)
(* urls to what is stored for them), out the number of times each url was  *)
(* fetched, frame[t] the locals <<url, image>> of caller t and ret[t] what *)
(* its last call returned.  An image is <<"image", url>>, a failed load    *)
(* None; nothing in the function keeps a caller from running between two  *)
(* statements of another.                                                  *)

Urls == {"a.png", "b.svg"}

\* line 165: the object that stands for an absent key
missing == <<"missing">>

NoImage == <<"none">>

\* lines 171-192: what loading url gives: the image, or None after a
\* URLFetchingError or an ImageLoadingError
Loaded(url) == {<<"image", url>>, None}

InitCache ==
    /\ arg = [u \in Urls |-> missing]
    /\ out = [u \in Urls |-> 0]
    /\ self = None
    /\ pc = [t \in 1..MaxCallers |-> "idle"]
    /\ frame = [t \in 1..MaxCallers |-> NoFrame]
    /\ ret = [t \in 1..MaxCallers |-> NoImage]

\* line 162: the call is entered
Enter(t, url) ==
    /\ pc[t] \in {"idle", "done"}
    /\ pc' = [pc EXCEPT ![t] = "get"]
    /\ frame' = [frame EXCEPT ![t] = <<url, missing>>]
    /\ ret' = [ret EXCEPT ![t] = NoImage]
    /\ UNCHANGED <<self, arg, out>>

\* lines 166-168: the cache is read, and the call returns what it holds
Get(t) ==
    /\ pc[t] = "get"
    /\ frame' = [frame EXCEPT ![t][2] = arg[frame[t][1]]]
    /\ IF arg[frame[t][1]] # missing
       THEN /\ ret' = [ret EXCEPT ![t] = arg[frame[t][1]]]
            /\ pc' = [pc EXCEPT ![t] = "done"]
       ELSE /\ pc' = [pc EXCEPT ![t] = "fetch"]
            /\ UNCHANGED ret
    /\ UNCHANGED <<self, arg, out>>

\* lines 170-192: the url is fetched and decoded
Fetch(t) ==
    /\ pc[t] = "fetch"
    /\ \E image \in Loaded(frame[t][1]) :
           frame' = [frame EXCEPT ![t][2] = image]
    /\ out' = [out EXCEPT ![frame[t][1]] = @ + 1]
    /\ pc' = [pc EXCEPT ![t] = "store"]
    /\ UNCHANGED <<self, ret, arg>>

\* lines 193-194: the image is stored and returned
Store(t) ==
    /\ pc[t] = "store"
    /\ arg' = [arg EXCEPT ![frame[t][1]] = frame[t][2]]
    /\ ret' = [ret EXCEPT ![t] = frame[t][2]]
    /\ pc' = [pc EXCEPT ![t] = "done"]
    /\ UNCHANGED <<self, frame, out>>

NextCache ==
    \E t \in DOMAIN pc :
        \/ \E url \in Urls : Enter(t, url)
        \/ Get(t)
        \/ Fetch(t)
        \/ Store(t)

SpecCache == InitCache /\ [][NextCache]_vars

----------------------------------------------------------------------------
(* Properties of layout (Spec, SpecCalls)                                  *)

Callers == DOMAIN pc
Returned(t) == pc[t] = "done" /\ ret[t].raised = ""

\* C1: every layout call on a gradient with a non-empty stop list, in a box
\* with width >= 0 and height >= 0, finishes without raising and returns a
\* plan of type 'solid', 'linear' or 'radial'.
C1_NeverRaises ==
    \A t \in Callers :
        pc[t] = "done"
        => ret[t].raised = "" /\ ret[t].type \in {"solid", "linear", "radial"}

\* C2: in every non-solid plan that layout returns, the positions ascend,
\* lie in [0, 1], start at exactly 0 and end at exactly 1.
C2_UnitPositions ==
    \A t \in Callers :
        Returned(t) /\ ret[t].type # "solid"
        => LET positions == ret[t].positions
           IN  /\ Ascending(positions)
               /\ \A k \in 1..Len(positions) :
                      Le(Zero, positions[k]) /\ Le(positions[k], One)
               /\ positions[1] = Zero
               /\ positions[Len(positions)] = One

\* the stop positions of the call in frame[t] as process_color_stops
\* returns them (line 396 or line 459), where layout gets that far
Computes(t) ==
    /\ pc[t] \in {"running", "done"}
    /\ Len(self.colors) > 1
    /\ self.class = "LinearGradient" /\ self.direction_type = "corner"
       => math_hypot(frame[t][1], frame[t][2]) # Zero
StopsOf(t) ==
    process_color_stops(
        IF self.class = "LinearGradient"
        THEN VectorLength(frame[t][1], frame[t][2],
                          Direction(self, frame[t][1], frame[t][2]))
        ELSE Sizes(self, frame[t][1], frame[t][2])[1],
        self.stop_positions)

\* the index of the first stop of positions that is not negative (0 when
\* all are negative)
FirstNonNegative(positions) ==
    IF \A k \in 1..Len(positions) : Lt(positions[k], Zero) THEN 0
    ELSE CHOOSE k \in 1..Len(positions) :
             /\ ~Lt(positions[k], Zero)
             /\ \A j \in 1..(k - 1) : Lt(positions[j], Zero)

\* the colour at position 0 on the line from (p_prev, c_prev) to
\* (p_next, c_next)
ValueAtZero(c_prev, p_prev, c_next, p_next) ==
    LET ratio == Div(Sub(Zero, p_prev), Sub(p_next, p_prev))
    IN  [k \in 1..4 |-> Add(c_prev[k], Mul(ratio, Sub(c_next[k], c_prev[k])))]

\* a non-repeating radial call whose first stop is negative and whose first
\* non-negative stop is positive, both stops around 0 being opaque
Bracketed(t) ==
    /\ Computes(t) = TRUE
    /\ pc[t] = "done"
    /\ self.class = "RadialGradient"
    /\ ~self.repeating
    /\ LET positions == StopsOf(t)
           i == FirstNonNegative(positions)
       IN  /\ i > 1
           /\ Lt(Zero, positions[i])
           /\ self.colors[i - 1][4] = One
           /\ self.colors[i][4] = One

\* C5: for a non-repeating radial gradient with stops p_prev < 0 < p_next
\* around 0, of opaque colours c_prev and c_next, the plan's first stop is
\* at 0 with the colour c_prev + (-p_prev / (p_next - p_prev)) * (c_next -
\* c_prev); the stops before p_next are dropped and those from p_next on
\* are kept in order.
C5_ColourAtZero ==
    \A t \in Callers :
        Bracketed(t) = TRUE
        => LET positions == StopsOf(t)
               i == FirstNonNegative(positions)
               n == Len(positions)
           IN  /\ ret[t].raised = ""
               /\ ret[t].type = "radial"
               /\ ret[t].positions[1] = Zero
               /\ ret[t].colors[1] =
                      ValueAtZero(self.colors[i - 1], positions[i - 1],
                                  self.colors[i], positions[i])
               /\ Len(ret[t].colors) >= n - i + 2
               /\ \A k \in i..n : ret[t].colors[k - i + 2] = self.colors[k]

\* a repeating gradient whose first and last stop are at the same position
ZeroPeriod(t) ==
    /\ Computes(t) = TRUE
    /\ pc[t] = "done"
    /\ self.repeating
    /\ StopsOf(t)[1] = StopsOf(t)[Len(self.colors)]

\* C6: a repeating gradient (linear or radial) with two or more stops whose
\* first and last positions are equal, negative or not, returns the solid
\* plan of gradient_average_color of its colours and all-zero positions.
C6_ZeroPeriodSolid ==
    \A t \in Callers :
        ZeroPeriod(t) = TRUE
        => ret[t] =
               Return(One, "solid", None, <<>>,
                      <<gradient_average_color(
                            self.colors,
                            [k \in 1..Len(self.colors) |-> Zero])>>)

\* C7: a gradient with exactly one colour returns (1, 'solid', None, [],
\* [that colour]) for every box and every direction, shape, size, center
\* and repeating, also where the geometry could not be computed.
C7_OneColourSolid ==
    \A t \in Callers :
        pc[t] = "done" /\ Len(self.colors) = 1
        => ret[t] = Return(One, "solid", None, <<>>, <<self.colors[1]>>)

\* a one-colour gradient towards a corner, laid out in the empty box (where
\* the diagonal of line 382 is 0)
C7_OneColourEmptyBox ==
    \E t \in Callers :
        /\ pc[t] = "done"
        /\ Len(self.colors) = 1
        /\ self.class = "LinearGradient"
        /\ self.direction_type = "corner"
        /\ frame[t] = <<Zero, Zero>>
        /\ ret[t].type = "solid"

\* the size that _resolve_size gives to the call in frame[t]
ResolvedSize(t) ==
    LET c == Center(self, frame[t][1], frame[t][2])
    IN  _resolve_size(self, frame[t][1], frame[t][2], c[1], c[2])

\* C8: for a radial gradient with two or more stops, whatever size >= 0
\* _resolve_size gives, (0, 0), (0, y) and (x, 0) included,
\* _handle_degenerate returns two sizes that are not 0 (so that size_y /
\* size_x divides by no zero), and the scale_y of every plan returned is
\* greater than 0.
C8_SizesNotZero ==
    \A t \in Callers :
        pc[t] \in {"running", "done"} /\ self.class = "RadialGradient"
        /\ Len(self.colors) > 1
        => LET sizes == Sizes(self, frame[t][1], frame[t][2])
           IN  /\ Lt(Zero, sizes[1]) /\ Lt(Zero, sizes[2])
               /\ Returned(t) => Lt(Zero, ret[t].scale_y)
               /\ Returned(t) /\ ret[t].type = "radial"
                  => ret[t].scale_y = Div(sizes[2], sizes[1])

\* a radial plan returned for a size that _resolve_size gives as (0, 0),
\* (0, y) or (x, 0)
C8_DegenerateReturned ==
    \E t \in Callers :
        /\ Returned(t)
        /\ self.class = "RadialGradient"
        /\ ret[t].type = "radial"
        /\ ResolvedSize(t)[1] = Zero \/ ResolvedSize(t)[2] = Zero
        /\ ret[t].scale_y # One

\* C10: a layout call, with the stops it inserts at the boundaries and the
\* periods _repeat adds to its lists, leaves the fields of the gradient
\* object as they were, and whatever the order and interleaving of the
\* calls on one object, calls with equal (width, height) end alike.
C10_LayoutPure ==
    /\ [][self' = self]_vars
    /\ [](\A t \in Callers : \A u \in Callers :
              pc[t] = "done" /\ pc[u] = "done" /\ frame[t] = frame[u]
              => ret[t] = ret[u])

\* two callers have returned, for the same box, a plan with more colours
\* than the gradient has: layout or _repeat added to the list of colours
C10_BothExtended ==
    \E t \in Callers : \E u \in Callers :
        /\ t # u
        /\ Returned(t) /\ Returned(u)
        /\ frame[t] = frame[u]
        /\ Len(ret[t].colors) > Len(self.colors)
        /\ ret[u].colors = ret[t].colors

\* the call of caller t returned the circles of a repeating radial
\* gradient, which it does when the period is not zero
Tiled(t) ==
    /\ Returned(t)
    /\ self.class = "RadialGradient"
    /\ self.repeating
    /\ ret[t].type = "radial"

\* the circle of the given radius around (points[0], points[1]) reaches the
\* four corners of the box, whose height is height / scale_y in the space
\* of the plan
Covers(width, height, scale_y, points, radius) ==
    \A x \in {Zero, width} : \A y \in {Zero, Div(height, scale_y)} :
        Reaches(radius, Add(Square(Sub(x, points[1])),
                            Square(Sub(y, points[2]))))

\* C13: the circles returned for a repeating radial gradient whose period
\* is not zero cover the box: the inner radius is 0 and the outer radius is
\* at least the distance from the centre (cx, cy / scale_y) to each corner
\* (0 or width, 0 or height / scale_y), whatever scale_y > 0 is.
C13_CoversBox ==
    \A t \in Callers :
        Tiled(t)
        => /\ ret[t].points[3] = Zero
           /\ Covers(frame[t][1], frame[t][2], ret[t].scale_y, ret[t].points,
                     ret[t].points[6])

----------------------------------------------------------------------------
(* Properties of process_color_stops (SpecStops)                           *)

Resolved == out # None /\ Len(arg) = 2

\* C3: for any vector_length >= 0 and any non-empty list of stops, the list
\* process_color_stops returns does not decrease and every value in it lies
\* in [0, vector_length].
C3_AscendingInRange ==
    Resolved
    => /\ Ascending(out)
       /\ \A k \in 1..Len(out) : Le(Zero, out[k]) /\ Le(out[k], arg[1])

\* the greatest of vector_length and the positions set before the last
\* stop (0 for a first stop that is unset)
RECURSIVE Highest(_, _, _)
Highest(vector_length, positions, k) ==
    IF k = 0 THEN vector_length
    ELSE LET rest == Highest(vector_length, positions, k - 1)
             position == IF k = 1 /\ positions[1] = None THEN Zero
                         ELSE percentage(positions[k], vector_length)
         IN  IF position = None THEN rest ELSE Max2(position, rest)

\* C4 as stated: an unset first stop comes out as 0 and an unset last stop
\* as vector_length, whatever the other stops are.
C4_Defaults ==
    Resolved
    => /\ arg[2][1] = None => out[1] = Zero
       /\ arg[2][Len(arg[2])] = None => out[Len(out)] = arg[1]

\* C4: an unset first stop comes out as 0; an unset last stop of a list of
\* two or more stops comes out as the greatest of vector_length and the
\* positions set before it, which is vector_length when none of them lies
\* beyond vector_length.
C4_DefaultsClamped ==
    Resolved
    => LET n == Len(arg[2])
       IN  /\ arg[2][1] = None => out[1] = Zero
           /\ n > 1 /\ arg[2][n] = None
              => /\ out[n] = Highest(arg[1], arg[2], n - 1)
                 /\ (\A k \in 1..(n - 1) :
                        arg[2][k] = None
                        \/ Le(percentage(arg[2][k], arg[1]), arg[1]))
                    => out[n] = arg[1]

\* an unset last stop after a stop set beyond vector_length, resolved
C4_Beyond ==
    /\ Resolved
    /\ Len(arg[2]) > 1
    /\ arg[2][Len(arg[2])] = None
    /\ \E k \in 1..(Len(arg[2]) - 1) :
           arg[2][k] # None /\ Lt(arg[1], percentage(arg[2][k], arg[1]))
    /\ Lt(arg[1], out[Len(out)])

\* stop k of positions is set, the first and the last stop counting as set
\* (lines 215-218 give them their defaults)
IsSet(positions, k) ==
    k = 1 \/ k = Len(positions) \/ positions[k] # None

\* the nearest stop before j, and the nearest stop after j, that is set
SetBefore(positions, j) ==
    CHOOSE a \in 1..(j - 1) :
        IsSet(positions, a) /\ \A k \in (a + 1)..(j - 1) : ~IsSet(positions, k)

SetAfter(positions, j) ==
    CHOOSE b \in (j + 1)..Len(positions) :
        IsSet(positions, b) /\ \A k \in (j + 1)..(b - 1) : ~IsSet(positions, k)

\* C12: every stop left unset, other than a first or a last stop, comes out
\* on the line between its nearest set neighbours a and b:
\* out[j] = out[a] + (j - a) * (out[b] - out[a]) / (b - a), in every gap and
\* not only in the gap that starts at the first stop.
C12_Interpolated ==
    Resolved
    => \A j \in 1..Len(arg[2]) :
           ~IsSet(arg[2], j)
           => LET a == SetBefore(arg[2], j)
                  b == SetAfter(arg[2], j)
              IN  out[j] = Add(out[a], Div(Mul(Num(j - a), Sub(out[b], out[a])),
                                           Num(b - a)))

----------------------------------------------------------------------------
(* Properties of gradient_average_color (SpecAverage)                      *)

Averaged == out # None /\ Len(arg) = 3

Reversed(seq) == [k \in 1..Len(seq) |-> seq[Len(seq) + 1 - k]]
Reflected(positions) == Reversed([k \in 1..Len(positions) |-> Neg(positions[k])])

\* C9: gradient_average_color gives the same colour for the colours
\* reversed with the positions reflected (negated, then reversed) as for
\* the colours and positions themselves, also when all positions are equal.
C9_ReversalSymmetric ==
    Averaged
    => out = gradient_average_color(Reversed(arg[2]), Reflected(arg[3]))

\* an average of different colours over segments of different lengths
C9_Uneven ==
    /\ Averaged
    /\ Len(arg[3]) = 3
    /\ arg[2][1] # arg[2][3]
    /\ Lt(Sub(arg[3][2], arg[3][1]), Sub(arg[3][3], arg[3][2]))
    /\ Lt(Zero, out[4])
    /\ out # arg[2][1]

----------------------------------------------------------------------------
(* Properties of get_image_from_uri (SpecCache)                            *)

\* caller t is between its miss (line 167) and its insertion (line 193)
Inserting(t) == pc[t] \in {"fetch", "store"}

\* C11: whatever the number and the interleaving of the callers that share
\* a cache, a url is fetched and decoded at most once (a failed load, stored
\* as None, included), and no two callers are between the miss and the
\* insertion for the same url.
C11_OneDecodePerKey ==
    /\ \A u \in Urls : out[u] <= 1
    /\ \A t \in DOMAIN pc : \A u \in DOMAIN pc :
           t # u /\ Inserting(t) /\ Inserting(u) => frame[t][1] # frame[u][1]

----------------------------------------------------------------------------
(* Properties of the shift of lines 469-475 (SpecShift)                    *)

\* the first stop of positions is negative and the last one lies after it
NegativeFirst(positions) ==
    Lt(positions[1], Zero) /\ Lt(positions[1], At(positions, -1))

\* lines 469-475 ran on positions with a negative first stop and a
\* positive span
Shifted == out # None /\ Len(arg) = 2 /\ NegativeFirst(arg[2])

\* positions is before moved by offset, stop by stop
Moved(before, positions, offset) ==
    /\ Len(positions) = Len(before)
    /\ \A k \in 1..Len(before) : positions[k] = Add(before[k], offset)

\* vector_length
Span(positions) == Sub(At(positions, -1), positions[1])

\* span * ceil(1 - positions[0] / span)
ShiftCeil(positions, span) ==
    Mul(span, Num(Ceiling(Sub(One, Div(positions[1], span)))))

\* 1 + floor(-positions[0] / span)
Periods(positions, span) == 1 + Floor(Div(Neg(positions[1]), span))

MovedPeriods(before, after, span, periods) ==
    /\ periods >= 1
    /\ Moved(before, after, Mul(span, Num(periods)))
    /\ Lt(Zero, after[1]) /\ Le(after[1], span)
    /\ \A j \in 1..Len(before) : \A k \in 1..Len(before) :
           Sub(after[k], after[j]) = Sub(before[k], before[j])

\* C14 as stated: the positions of a repeating radial gradient with a
\* negative first stop and a positive span are all moved by
\* span * ceil(1 - positions[0] / span), after which the first one is not
\* negative.
C14_ShiftCeil ==
    Shifted
    => /\ out.raised = ""
       /\ Moved(arg[2], out.positions, ShiftCeil(arg[2], Span(arg[2])))
       /\ Le(Zero, out.positions[1])

\* C14: the positions of a repeating radial gradient with a negative first
\* stop and a positive span are all moved by
\* span * (1 + floor(-positions[0] / span)), a whole number of spans and the
\* least one that makes the first position positive: the first position
\* ends in (0, span] and the differences between positions stay as they
\* were.
C14_ShiftFloor ==
    Shifted
    => /\ out.raised = ""
       /\ MovedPeriods(arg[2], out.positions, Span(arg[2]),
                       Periods(arg[2], Span(arg[2])))

\* the stops were moved by one span where rounding up gives two: the first
\* stop is not a whole number of spans below 0
C14_PartPeriod ==
    /\ Shifted
    /\ Moved(arg[2], out.positions, Span(arg[2]))
    /\ ShiftCeil(arg[2], Span(arg[2])) = Mul(Span(arg[2]), Num(2))

====
